---- MODULE Spec2Model ----
(***************************************************************************)
(* paramtools.Parameters: the value-object store of a Parameters instance, *)
(* its label state, and the operations set_state, clear_state, adjust,     *)
(* extend, to_array and from_array of src/paramtools/parameters.py.        *)
(*                                                                         *)
(* A value object is a function from label names and "value" to integers.  *)
(* A predicate mapping (the labels of a select, the State) maps a label to *)
(* a list of values; a scalar x is written <<x>>, which is what the code   *)
(* turns it into wherever it distinguishes the two (lines 454, 465).       *)
(***************************************************************************)
EXTENDS Integers, Sequences, FiniteSets, TLC

VARIABLES
    label_to_extend,  \* class attribute label_to_extend, NoLabel when None
    _data,            \* self._data[param]["value"]: param -> list of value objects
    _state,           \* self._state: label -> list of selected values
    label_grid,       \* self.label_grid: label -> list of values (working grid)
    _errors,          \* self._errors["messages"/"labels"], <<>> when empty
    views,            \* the attribute set for each parameter by _set_state
    call,             \* the call a caller has issued and the instance has not run yet
    last,             \* the call that ran last: its name and its outcome
    nops,             \* number of calls that ran
    stack             \* the frames of adjust and extend in progress, the caller's first

vars == <<label_to_extend, _data, _state, label_grid, _errors, views, call, last, nops,
          stack>>

----------------------------------------------------------------------------
(* Bounds of the model *)

MaxOps == 2      \* calls per behaviour

----------------------------------------------------------------------------
(* The schema: parameters, labels and their grids *)

None == 0
NoLabel == "None"

ParamOrder == <<"p", "q">>
Params == {"p", "q"}

LabelOrder == <<"dim0", "year">>
LabelNames == {"dim0", "year"}

\* v.grid() of each label validator
_stateless_label_grid == [dim0 |-> <<0, 1>>, year |-> <<0, 1, 2>>]

\* a list-valued value with two bad elements is written as the value 99
BadListValues == {99}

BadValues == {9} \cup BadListValues

----------------------------------------------------------------------------
(* Helpers *)

Range(s) == {s[i] : i \in 1..Len(s)}

Min(S) == CHOOSE x \in S : \A y \in S : x <= y

Index(grid, x) == Min({i \in 1..Len(grid) : grid[i] = x})

\* the elements of s at the positions in K, in order
RECURSIVE KeepIdx(_, _, _)
KeepIdx(s, K, j) ==
    IF j > Len(s) THEN <<>>
    ELSE (IF j \in K THEN <<s[j]>> ELSE <<>>) \o KeepIdx(s, K, j + 1)

Labels(vo) == DOMAIN vo \ {"value"}

\* utils.filter_labels(vo, drop=...)
filter_labels(vo, drop) == [k \in DOMAIN vo \ drop |-> vo[k]]

\* a value object's labels as a predicate mapping
AsPredicates(lbls) == [k \in DOMAIN lbls |-> <<lbls[k]>>]

----------------------------------------------------------------------------
(* Selection Engine (paramtools.select) *)

eq_func(x, y) == x = y

gt_ix_func(grid, x, y) == Index(grid, x) > Index(grid, y)

\* the comparison a select applies: eq_func, or gt_ix_func over a grid
cmp_func(cmp, grid, x, y) ==
    IF cmp = "eq" THEN eq_func(x, y) ELSE gt_ix_func(grid, x, y)

select(value_objects, exact_match, cmp, grid, labels) ==
    SelectSeq(value_objects,
        LAMBDA vo :
            \A k \in DOMAIN labels :
                IF k \in DOMAIN vo
                THEN \E y \in Range(labels[k]) : cmp_func(cmp, grid, vo[k], y)
                ELSE ~exact_match)

select_eq(value_objects, exact_match, labels) ==
    select(value_objects, exact_match, "eq", <<>>, labels)

select_gt_ix(value_objects, exact_match, labels, grid) ==
    select(value_objects, exact_match, "gt_ix", grid, labels)

----------------------------------------------------------------------------
(* Update Merger: Parameters._update_param *)

\* a faulty variant of MatchAt: any(...) in place of all(...)
MatchAtAnyLabel(curr, new) ==
    IF \E k \in Labels(new) : k \notin DOMAIN curr THEN "keyerror"
    ELSE IF Labels(new) = {} \/ \E k \in Labels(new) : curr[k] = new[k] THEN "match"
    ELSE "nomatch"

\* all(curr_vals[j][k] == new_values[i][k] for k in labels_to_check):
\* the labels are compared in order and the comparison stops at the first
\* difference; a label the stored object lacks raises KeyError.
MatchAt(curr, new) ==
    LET ks == SelectSeq(LabelOrder, LAMBDA k : k \in DOMAIN new)
        RECURSIVE walk(_)
        walk(n) ==
            IF n > Len(ks) THEN "match"
            ELSE IF ks[n] \notin DOMAIN curr THEN "keyerror"
            ELSE IF curr[ks[n]] # new[ks[n]] THEN "nomatch"
            ELSE walk(n + 1)
    IN walk(1)

\* a faulty variant of UpdateOne: a matching record is never overwritten,
\* the incoming record is appended whether or not it matched
UpdateOneAlwaysAppends(curr_vals, new) ==
    IF new["value"] = None
    THEN [vals |-> SelectSeq(curr_vals, LAMBDA vo : MatchAt(vo, new) # "match"),
          err |-> FALSE]
    ELSE [vals |-> Append(curr_vals, new), err |-> FALSE]

\* a faulty variant of UpdateOne: the matching records are removed whatever
\* the incoming value is
UpdateOneDropsMatches(curr_vals, new) ==
    LET n == Len(curr_vals)
        matched == {j \in 1..n : MatchAt(curr_vals[j], new) = "match"}
    IN  IF matched # {}
        THEN [vals |-> KeepIdx(curr_vals, (1..n) \ matched, 1), err |-> FALSE]
        ELSE IF new["value"] = None THEN [vals |-> curr_vals, err |-> FALSE]
        ELSE [vals |-> Append(curr_vals, new), err |-> FALSE]

\* one iteration of the loop over new_values: the stored list afterwards,
\* and whether the iteration raised KeyError
UpdateOne(curr_vals, new) ==
    LET n == Len(curr_vals)
        Overwrite(res) ==
            LET errs == {j \in 1..n : res[j] = "keyerror"}
                stop == IF errs = {} THEN n + 1 ELSE Min(errs)
                matched == {j \in 1..n : j < stop /\ res[j] = "match"}
                written == [j \in 1..n |->
                               IF j \in matched /\ new["value"] # None
                               THEN [curr_vals[j] EXCEPT !["value"] = new["value"]]
                               ELSE curr_vals[j]]
            IN  IF errs # {} THEN [vals |-> written, err |-> TRUE]
                ELSE IF new["value"] = None
                THEN [vals |-> KeepIdx(curr_vals, (1..n) \ matched, 1), err |-> FALSE]
                ELSE IF matched # {} THEN [vals |-> written, err |-> FALSE]
                ELSE [vals |-> Append(curr_vals, new), err |-> FALSE]
    IN  Overwrite([j \in 1..n |-> MatchAt(curr_vals[j], new)])

RECURSIVE UpdateFrom(_, _, _)
UpdateFrom(curr_vals, new_values, i) ==
    IF i > Len(new_values) THEN [vals |-> curr_vals, err |-> FALSE]
    ELSE LET Then(r) == IF r.err THEN r ELSE UpdateFrom(r.vals, new_values, i + 1)
         IN  Then(UpdateOne(curr_vals, new_values[i]))

_update_param(curr_vals, new_values) == UpdateFrom(curr_vals, new_values, 1)

----------------------------------------------------------------------------
(* The mutable fields of an instance, bundled so that a method is an       *)
(* operator from a bundle to a bundle and an outcome:                      *)
(*   [data, state, grid, errors, views]                                    *)

Bundle(d, st, g, e, v) == [data |-> d, state |-> st, grid |-> g, errors |-> e, views |-> v]

NoErrors == <<>>

HasErrors(e) == DOMAIN e # {}

----------------------------------------------------------------------------
(* External validator (schema collaborator) and the Error Aggregator *)

\* a value object the field validators reject
Rejected(vo) == vo["value"] \in BadValues

\* the positions of the offending value objects of each parameter
Offending(params) ==
    [prm \in DOMAIN params |-> {i \in 1..Len(params[prm]) : Rejected(params[prm][i])}]

AllOffending(params) == [prm \in DOMAIN params |-> 1..Len(params[prm])]

Fails(off) == \E prm \in DOMAIN off : off[prm] # {}

\* the failure structure the validator reports for the value field of an
\* offending value object: a list of messages for a scalar value, and one
\* list of messages per bad element for a list-valued value
MarshMessages(vo) ==
    IF vo["value"] \in BadListValues
    THEN << <<"invalid[0]">>, <<"invalid[1]">> >>
    ELSE << <<"invalid">> >>

\* the lists of a list of lists, joined in order
RECURSIVE ConcatFrom(_, _)
ConcatFrom(lists, i) ==
    IF i > Len(lists) THEN <<>> ELSE lists[i] \o ConcatFrom(lists, i + 1)

\* lines 647-655: formatted_errors_ix, every message of one value object
FormattedErrors(vo) == ConcatFrom(MarshMessages(vo), 1)

\* Parameters._parse_errors: per failing parameter, one entry per offending
\* value object, in order: its messages and its labels
_parse_errors(params, off) ==
    [prm \in {x \in DOMAIN off : off[x] # {}} |->
        LET bad == KeepIdx(params[prm], off[prm], 1)
        IN  [i \in 1..Len(bad) |->
                [messages |-> FormattedErrors(bad[i]),
                 labels |-> filter_labels(bad[i], {"value"})]]]

\* a faulty variant of ravel: the lists are not joined
RavelKeepsLists(messages) == messages

\* utils.ravel: the messages of every entry, as one flat list
ravel(messages) == ConcatFrom(messages, 1)

\* Parameters.errors: per parameter of self._errors["messages"], its messages
\* flattened
errors(e) ==
    [prm \in DOMAIN e |-> ravel([i \in 1..Len(e[prm]) |-> e[prm][i].messages])]

----------------------------------------------------------------------------
(* Parameters.specification and Parameters._set_state *)

\* labels.update(self._state): on a shared label the State's entry replaces
\* the caller's
QueryLabels(s, use_state, labels) ==
    IF use_state THEN s.state @@ labels ELSE labels

specification(s, use_state, include_empty, labels) ==
    LET lb == QueryLabels(s, use_state, labels)
        res == [prm \in Params |-> select_eq(s.data[prm], FALSE, lb)]
    IN  [prm \in {x \in Params : include_empty \/ res[x] # <<>>} |-> res[prm]]

\* the labels of a set_state call that fail: unknown names, and values the
\* label's validator rejects
StateMessages(labels) ==
    {name \in DOMAIN labels :
        \/ name \notin LabelNames
        \/ \E v \in Range(labels[name]) : v \notin Range(_stateless_label_grid[name])}

\* a faulty variant of _set_state: the State is updated before the labels
\* are validated
SetStateMutatesBeforeValidating(s, params, labels) ==
    LET known == [l \in DOMAIN labels \cap LabelNames |-> labels[l]]
        st == known @@ s.state
        g == [l \in LabelNames |-> IF l \in DOMAIN st THEN st[l] ELSE s.grid[l]]
    IN  IF StateMessages(labels) # {}
        THEN [s |-> [s EXCEPT !.state = st, !.grid = g], out |-> "ValidationError"]
        ELSE [s |-> [s EXCEPT !.state = st, !.grid = g,
                       !.views = [prm \in Params |->
                                    IF prm \in params
                                    THEN select_eq(s.data[prm], FALSE, st)
                                    ELSE s.views[prm]]],
              out |-> "ok"]

_set_state(s, params, labels) ==
    IF StateMessages(labels) # {}
    THEN [s |-> s, out |-> "ValidationError"]
    ELSE LET st == labels @@ s.state
             g == [l \in LabelNames |-> IF l \in DOMAIN st THEN st[l] ELSE s.grid[l]]
             s1 == [s EXCEPT !.state = st, !.grid = g]
             spec == specification(s1, TRUE, TRUE, st)
         IN  [s |-> [s1 EXCEPT !.views = [prm \in Params |->
                                            IF prm \in params THEN spec[prm]
                                            ELSE s.views[prm]]],
              out |-> "ok"]

\* a faulty variant of clear_state: the working grid is not reset
ClearStateKeepsGrid(s) == _set_state([s EXCEPT !.state = <<>>], Params, <<>>)

\* Parameters.clear_state
clear_state(s) ==
    _set_state([s EXCEPT !.state = <<>>, !.grid = _stateless_label_grid], Params, <<>>)

----------------------------------------------------------------------------
(* Parameters.adjust when no extension applies (label_to_extend is None or *)
(* extend_adj is false): lines 112-121 and 183-195                         *)

\* the loop over parsed_params.items(), stopped by a KeyError
RECURSIVE MergeFrom(_, _, _)
MergeFrom(data, parsed_params, n) ==
    IF n > Len(ParamOrder) THEN [data |-> data, err |-> FALSE]
    ELSE LET prm == ParamOrder[n]
         IN  IF prm \notin DOMAIN parsed_params
             THEN MergeFrom(data, parsed_params, n + 1)
             ELSE LET Then(r) ==
                          LET d == [data EXCEPT ![prm] = r.vals]
                          IN  IF r.err THEN [data |-> d, err |-> TRUE]
                              ELSE MergeFrom(d, parsed_params, n + 1)
                  IN  Then(_update_param(data[prm], parsed_params[prm]))

\* a faulty variant of adjust_plain: the parameters whose value objects all
\* passed validation are merged although another parameter failed
AdjustPlainMergesValidParams(s, params, raise_errors, off) ==
    LET valid == [prm \in {x \in DOMAIN params : off[x] = {}} |-> params[prm]]
        Then(errs, merged) ==
            LET s1 == [s EXCEPT !.data = merged.data, !.errors = errs]
            IN  IF raise_errors /\ HasErrors(errs)
                THEN [s |-> s1, out |-> "ValidationError", ret |-> <<>>]
                ELSE [s |-> _set_state(s1, DOMAIN valid, <<>>).s, out |-> "ok",
                      ret |-> valid]
    IN  Then(IF Fails(off) THEN _parse_errors(params, off) ELSE s.errors,
             MergeFrom(s.data, valid, 1))

adjust_plain(s, params, raise_errors, off) ==
    LET parsed_params == IF Fails(off) THEN <<>> ELSE params
        Merge(errs) ==
            LET Then(merged) ==
                    LET s1 == [s EXCEPT !.data = merged.data, !.errors = errs]
                    IN  IF merged.err THEN [s |-> s1, out |-> "KeyError", ret |-> <<>>]
                        ELSE IF raise_errors /\ HasErrors(errs)
                        THEN [s |-> s1, out |-> "ValidationError", ret |-> <<>>]
                        ELSE [s |-> _set_state(s1, DOMAIN parsed_params, <<>>).s,
                              out |-> "ok", ret |-> parsed_params]
            IN  Then(IF HasErrors(errs) THEN [data |-> s.data, err |-> FALSE]
                     ELSE MergeFrom(s.data, parsed_params, 1))
    IN  Merge(IF Fails(off) THEN _parse_errors(params, off) ELSE s.errors)

----------------------------------------------------------------------------
(* Extension Algorithm: Parameters.extend *)

\* sorted(vos, key=lambda val: extend_grid.index(val[label])): a stable sort
RECURSIVE SortFrom(_, _, _, _)
SortFrom(vos, label, grid, g) ==
    IF g > Len(grid) THEN <<>>
    ELSE SelectSeq(vos, LAMBDA vo : label \in DOMAIN vo /\ vo[label] = grid[g])
         \o SortFrom(vos, label, grid, g + 1)

grid_sort(vos, label, grid) == SortFrom(vos, label, grid, 1)

\* the grid values not in defined_vals, in grid order
MissingVals(grid, defined_vals) ==
    SelectSeq(grid, LAMBDA v : v \notin defined_vals)

\* dict(value_object, **{label: val}) for each value object
Relabel(value_objects, label, val) ==
    [i \in 1..Len(value_objects) |-> [value_objects[i] EXCEPT ![label] = val]]

\* a faulty variant of FillSource: every missing value is filled from the
\* first defined value
FillSourceAlwaysFirstDefined(val, eq, extended, defined_vals, label, grid) ==
    LET first_defined_value ==
            CHOOSE d \in defined_vals :
                \A e \in defined_vals : Index(grid, d) <= Index(grid, e)
    IN  select_eq(eq, TRUE, [k \in {label} |-> <<first_defined_value>>])

\* the fill source of the missing value val (lines 409-424)
FillSource(val, eq, extended, defined_vals, label, grid) ==
    LET eg_ix == Index(grid, val)
    IN  IF eg_ix = 1
        THEN LET first_defined_value ==
                     CHOOSE d \in defined_vals :
                         \A e \in defined_vals : Index(grid, d) <= Index(grid, e)
             IN  select_eq(eq, TRUE, [k \in {label} |-> <<first_defined_value>>])
        ELSE IF grid[eg_ix - 1] \in DOMAIN extended
        THEN extended[grid[eg_ix - 1]]
        ELSE select_eq(eq, TRUE, [k \in {label} |-> <<grid[eg_ix - 1]>>])

\* the loop over missing_vals (lines 408-435): the records emitted and
\* extended_vos afterwards
RECURSIVE FillFrom(_, _, _, _, _, _, _, _)
FillFrom(missing_vals, n, eq, extended, defined_vals, label, grid, acc) ==
    IF n > Len(missing_vals) THEN acc
    ELSE LET val == missing_vals[n]
             eg_ix == Index(grid, val)
             value_objects == FillSource(val, eq, extended, defined_vals, label, grid)
             popped == IF eg_ix > 1 /\ grid[eg_ix - 1] \in DOMAIN extended
                       THEN [k \in DOMAIN extended \ {grid[eg_ix - 1]} |-> extended[k]]
                       ELSE extended
             exts == Relabel(value_objects, label, val)
             ext1 == IF exts = <<>> THEN popped ELSE (val :> exts) @@ popped
         IN  FillFrom(missing_vals, n + 1, eq, ext1, defined_vals, label, grid,
                      [recs |-> acc.recs \o exts,
                       extended_vos |-> acc.extended_vos \cup Range(value_objects)])

\* the loop over the sorted value objects of one parameter (lines 373-435)
RECURSIVE ExtendFrom(_, _, _, _, _, _)
ExtendFrom(sorted, i, store, label, grid, acc) ==
    IF i > Len(sorted) THEN acc.recs
    ELSE LET vo == sorted[i]
         IN  IF vo \in acc.extended_vos
             THEN ExtendFrom(sorted, i + 1, store, label, grid, acc)
             ELSE LET gt == select_gt_ix(store, TRUE, [k \in {label} |-> <<vo[label]>>], grid)
                      eq0 == select_eq(gt, TRUE,
                                       AsPredicates(filter_labels(vo, {"value", label})))
                      eq == Append(eq0, vo)
                      seen == acc.extended_vos \cup {vo} \cup Range(eq0)
                      defined_vals == {eq[j][label] : j \in 1..Len(eq)}
                      missing_vals == MissingVals(grid, defined_vals)
                  IN  ExtendFrom(sorted, i + 1, store, label, grid,
                          FillFrom(missing_vals, 1, eq, <<>>, defined_vals, label, grid,
                                   [recs |-> acc.recs, extended_vos |-> seen]))

\* the parameters extend works on and the value objects it iterates over:
\* those specification(meta_data=True) returns under the State, and for an
\* explicit params argument the whole stored list of each (lines 360-366)
\* (all: the params argument is None)
ExtendSpec(s, all, params) ==
    LET spec == specification(s, TRUE, FALSE, <<>>)
    IN  IF all THEN spec
        ELSE [prm \in DOMAIN spec \cap params |-> s.data[prm]]

\* the adjustment extend builds (lines 368-435)
ExtendAdjustment(s, label, all, params) ==
    LET grid == _stateless_label_grid[label]
        NonEmpty(recs) == [prm \in {x \in DOMAIN recs : recs[x] # <<>>} |-> recs[prm]]
        Over(spec) ==
            NonEmpty([prm \in DOMAIN spec |->
                IF \A j \in 1..Len(spec[prm]) : label \notin DOMAIN spec[prm][j]
                THEN <<>>
                ELSE ExtendFrom(grid_sort(spec[prm], label, grid), 1, s.data[prm],
                                label, grid, [recs |-> <<>>, extended_vos |-> {}])])
    IN  Over(ExtendSpec(s, all, params))

\* sorted(...) raises KeyError when one value object carries the label and
\* another does not
ExtendKeyError(s, label, all, params) ==
    LET Mixed(spec) ==
            \E prm \in DOMAIN spec :
                /\ \E j \in 1..Len(spec[prm]) : label \in DOMAIN spec[prm][j]
                /\ \E j \in 1..Len(spec[prm]) : label \notin DOMAIN spec[prm][j]
    IN  Mixed(ExtendSpec(s, all, params))

\* Parameters.extend; rej: the external validator rejects the adjustment
extend(s, label, all, params, raise_errors, rej) ==
    IF ExtendKeyError(s, label, all, params)
    THEN [s |-> s, out |-> "KeyError", ret |-> <<>>]
    ELSE LET Load(adjustment) ==
                 adjust_plain(s, adjustment, raise_errors,
                              IF rej THEN AllOffending(adjustment)
                              ELSE Offending(adjustment))
         IN  Load(ExtendAdjustment(s, label, all, params))

----------------------------------------------------------------------------
(* Parameters.adjust *)

\* lines 125-161: the stored value objects at later grid positions than an
\* incoming value object, with its other labels, as delete records
RECURSIVE ToDeleteFrom(_, _, _, _, _)
ToDeleteFrom(store, sorted, i, label, grid) ==
    IF i > Len(sorted) THEN <<>>
    ELSE LET vo == sorted[i]
             gt == select_gt_ix(store, TRUE, [k \in {label} |-> <<vo[label]>>], grid)
             eq == select_eq(gt, TRUE, AsPredicates(filter_labels(vo, {label, "value"})))
         IN  eq \o ToDeleteFrom(store, sorted, i + 1, label, grid)

ToDelete(store, vos, label, grid) ==
    LET AsDeletes(td) == [i \in 1..Len(td) |-> [td[i] EXCEPT !["value"] = None]]
    IN  AsDeletes(ToDeleteFrom(store, grid_sort(vos, label, grid), 1, label, grid))

\* the body of the try block of lines 164-180: the delete of the value
\* objects extend will write again, the user's adjustment, and extend; the
\* first step that raises ends the block
AdjustSteps(s, prm, vos, label, rej) ==
    LET grid == _stateless_label_grid[label]
        ThenExtend(r2) ==
            IF r2.out # "ok" THEN r2 ELSE extend(r2.s, label, FALSE, {prm}, TRUE, FALSE)
        ThenApply(r1) ==
            IF r1.out # "ok" THEN r1
            ELSE ThenExtend(adjust_plain(r1.s, prm :> vos, TRUE,
                                         IF rej THEN AllOffending(prm :> vos)
                                         ELSE [x \in {prm} |-> {}]))
    IN  ThenApply(adjust_plain(s, prm :> ToDelete(s.data[prm], vos, label, grid), TRUE,
                               [x \in {prm} |-> {}]))

\* a faulty variant of AdjustParam: the backup is not restored
AdjustParamNoRestore(s, prm, vos, label, rej) ==
    LET Result(r) == [s |-> r.s, out |-> r.out]
    IN  Result(AdjustSteps(s, prm, vos, label, rej))

\* lines 164-182, one parameter: retract, apply, extend, and the restore of
\* the backup on ValidationError. rej: the validator rejects the parameter's
\* value objects when they are loaded on their own.
AdjustParam(s, prm, vos, label, rej) ==
    LET backup == s.data[prm]
        Restore(r) ==
            IF r.out = "ValidationError"
            THEN [s |-> [r.s EXCEPT !.data[prm] = backup], out |-> "ValidationError"]
            ELSE [s |-> r.s, out |-> r.out]
    IN  Restore(AdjustSteps(s, prm, vos, label, rej))

\* the loop over parsed_params.items() of lines 124-182, stopped by a KeyError
RECURSIVE AdjustFrom(_, _, _, _, _)
AdjustFrom(s, parsed_params, label, rej, n) ==
    IF n > Len(ParamOrder) THEN [s |-> s, out |-> "ok"]
    ELSE LET prm == ParamOrder[n]
         IN  IF prm \notin DOMAIN parsed_params
             THEN AdjustFrom(s, parsed_params, label, rej, n + 1)
             ELSE LET Then(r) == IF r.out = "KeyError" THEN r
                                 ELSE AdjustFrom(r.s, parsed_params, label, rej, n + 1)
                  IN  Then(AdjustParam(s, prm, parsed_params[prm], label, prm \in rej))

adjust(s, label, params, raise_errors, extend_adj, rej) ==
    IF label = NoLabel \/ ~extend_adj
    THEN adjust_plain(s, params, raise_errors, Offending(params))
    ELSE LET off == Offending(params)
             parsed_params == IF Fails(off) THEN <<>> ELSE params
             Finish(r) ==
                 IF r.out = "KeyError" THEN [s |-> r.s, out |-> "KeyError", ret |-> <<>>]
                 ELSE IF raise_errors /\ HasErrors(r.s.errors)
                 THEN [s |-> r.s, out |-> "ValidationError", ret |-> <<>>]
                 ELSE [s |-> _set_state(r.s, DOMAIN parsed_params, <<>>).s,
                       out |-> "ok", ret |-> parsed_params]
             Loop(s0) ==
                 Finish(IF HasErrors(s0.errors) THEN [s |-> s0, out |-> "ok"]
                        ELSE AdjustFrom(s0, parsed_params, label, rej, 1))
         IN  Loop(IF Fails(off) THEN [s EXCEPT !.errors = _parse_errors(params, off)]
                  ELSE s)

----------------------------------------------------------------------------
(* Array Projection: Parameters._resolve_order, to_array and from_array *)

Max(S) == CHOOSE x \in S : \A y \in S : x >= y

\* utils.consistent_labels: the label set the value objects share, or None
consistent_labels(value_items) ==
    IF \A i \in 1..Len(value_items) : Labels(value_items[i]) = Labels(value_items[1])
    THEN [ok |-> TRUE, used |-> IF value_items = <<>> THEN {} ELSE Labels(value_items[1])]
    ELSE [ok |-> FALSE, used |-> {}]

\* Parameters._resolve_order: the used labels in the order of label_grid,
\* and the working grid as value_order
_resolve_order(s, param) ==
    LET Order(c) ==
            [ok |-> c.ok,
             label_order |-> SelectSeq(LabelOrder, LAMBDA l : l \in c.used),
             value_order |-> s.grid]
    IN  Order(consistent_labels(select_eq(s.data[param], FALSE, s.state)))

\* itertools.product(*lists): the tuples in order, the last list varying
\* fastest
RECURSIVE ProductFrom(_, _)
ProductFrom(lists, n) ==
    IF n > Len(lists) THEN << <<>> >>
    ELSE LET Cross(rest) ==
                 [k \in 1..(Len(lists[n]) * Len(rest)) |->
                     <<lists[n][((k - 1) \div Len(rest)) + 1]>>
                         \o rest[((k - 1) % Len(rest)) + 1]]
         IN  Cross(ProductFrom(lists, n + 1))

product(lists) == ProductFrom(lists, 1)

\* the grids of the labels of label_order, and their index ranges
ValueLists(ro) == [i \in 1..Len(ro.label_order) |-> ro.value_order[ro.label_order[i]]]

IndexLists(ro) ==
    [i \in 1..Len(ro.label_order) |->
        [j \in 1..Len(ro.value_order[ro.label_order[i]]) |-> j - 1]]

\* tuple(vo[d] for d in label_order)
LabelTuple(vo, label_order) == [i \in 1..Len(label_order) |-> vo[label_order[i]]]

\* a faulty variant of ArrayIndex: positions in the stateless grid
ArrayIndexStateless(vi, label_order, value_order) ==
    [i \in 1..Len(label_order) |->
        Index(_stateless_label_grid[label_order[i]], vi[label_order[i]]) - 1]

\* lines 306-315: the index of a value object's cell, by the position of
\* each of its label values in value_order
ArrayIndex(vi, label_order, value_order) ==
    [i \in 1..Len(label_order) |->
        Index(value_order[label_order[i]], vi[label_order[i]]) - 1]

\* a faulty variant of missing: the whole grid is reported
MissingIsWholeGrid(exp_grid, actual) == exp_grid

\* line 295: [d for d in exp_grid if d not in actual]
missing(exp_grid, actual) == SelectSeq(exp_grid, LAMBDA d : d \notin actual)

\* the array lines 304-316 fill: each cell holds the value of the last value
\* object written to it; np.empty leaves in a cell no value object is
\* written to whatever the memory held, here junk
FillArray(value_items, ro, junk) ==
    [ix \in Range(product(IndexLists(ro))) |->
        LET writers == {j \in 1..Len(value_items) :
                           ArrayIndex(value_items[j], ro.label_order, ro.value_order) = ix}
        IN  IF writers = {} THEN junk ELSE value_items[Max(writers)]["value"]]

\* a faulty variant of to_array: without the return of line 273 for an empty
\* record set
ToArrayWithoutEmptyCheck(s, param, junk) ==
    LET Project(value_items, ro) ==
            IF ~ro.ok
            THEN [out |-> "InconsistentLabels", kind |-> "none", arr |-> <<>>,
                  missing |-> <<>>]
            ELSE IF Len(value_items) # Len(product(IndexLists(ro)))
            THEN [out |-> "Sparse", kind |-> "none", arr |-> <<>>,
                  missing |-> missing(product(ValueLists(ro)),
                                      {LabelTuple(value_items[j], ro.label_order) :
                                          j \in 1..Len(value_items)})]
            ELSE [out |-> "ok", kind |-> "array",
                  arr |-> FillArray(value_items, ro, junk), missing |-> <<>>]
    IN  Project(select_eq(s.data[param], FALSE, s.state), _resolve_order(s, param))

\* Parameters.to_array. kind: "empty" is np.array([]), "array" an array of
\* the resolved shape; out: "ok" or the exception raised
to_array(s, param, junk) ==
    LET Project(value_items, ro) ==
            IF value_items = <<>>
            THEN [out |-> "ok", kind |-> "empty", arr |-> <<>>, missing |-> <<>>]
            ELSE IF ~ro.ok
            THEN [out |-> "InconsistentLabels", kind |-> "none", arr |-> <<>>,
                  missing |-> <<>>]
            ELSE IF Len(value_items) # Len(product(IndexLists(ro)))
            THEN [out |-> "Sparse", kind |-> "none", arr |-> <<>>,
                  missing |-> missing(product(ValueLists(ro)),
                                      {LabelTuple(value_items[j], ro.label_order) :
                                          j \in 1..Len(value_items)})]
            ELSE [out |-> "ok", kind |-> "array",
                  arr |-> FillArray(value_items, ro, junk), missing |-> <<>>]
    IN  Project(select_eq(s.data[param], FALSE, s.state), _resolve_order(s, param))

\* Parameters.from_array, for an array with a cell at every index of the
\* resolved shape
from_array(s, param, array) ==
    LET Items(ro) ==
            IF ~ro.ok THEN [out |-> "InconsistentLabels", ret |-> <<>>]
            ELSE LET Zip(label_values, label_indices) ==
                         [k \in 1..Len(label_values) |->
                             [l \in Range(ro.label_order) \cup {"value"} |->
                                 IF l = "value" THEN array[label_indices[k]]
                                 ELSE label_values[k][Index(ro.label_order, l)]]]
                 IN  [out |-> "ok",
                      ret |-> Zip(product(ValueLists(ro)), product(IndexLists(ro)))]
    IN  Items(_resolve_order(s, param))

----------------------------------------------------------------------------
(* Parameters.__init__ *)

__init__(defaults, label, initial_state) ==
    LET s0 == Bundle(defaults, initial_state, _stateless_label_grid, NoErrors,
                     [prm \in Params |-> <<>>])
        s1 == _set_state(s0, Params, <<>>).s
    IN  IF label # NoLabel THEN extend(s1, label, TRUE, {}, TRUE, FALSE).s ELSE s1

----------------------------------------------------------------------------
(* Inputs *)

\* value objects carrying both labels, one label, or none
FullVOs(years, vals) == {[dim0 |-> a, year |-> y, value |-> v] : a \in {0, 1}, y \in years, v \in vals}
YearVOs(years, vals) == {[year |-> y, value |-> v] : y \in years, v \in vals}
Dim0VOs(vals) == {[dim0 |-> a, value |-> v] : a \in {0, 1}, v \in vals}
BareVOs(vals) == {[value |-> v] : v \in vals}

\* lists of one or two value objects
Lists(S) == {<<a>> : a \in S} \cup {<<a, b>> : a \in S, b \in S}

----------------------------------------------------------------------------
(* Calls: a caller issues a call with its arguments, the instance runs it *)

Cur == Bundle(_data, _state, label_grid, _errors, views)

Idle == [op |-> "none", params |-> <<>>, labels |-> <<>>, raise_errors |-> TRUE,
         extend_adj |-> TRUE, rej |-> {}, param |-> "", array |-> <<>>,
         use_state |-> TRUE]

Start(s, label) ==
    /\ label_to_extend = label
    /\ _data = s.data
    /\ _state = s.state
    /\ label_grid = s.grid
    /\ _errors = s.errors
    /\ views = s.views
    /\ call = Idle
    /\ last = [op |-> "__init__", out |-> "ok", tags |-> {}, param |-> "", ret |-> <<>>]
    /\ nops = 0
    /\ stack = <<>>

\* the label basis of a value object
Basis(vo) == filter_labels(vo, {"value"})

Bases(vos) == {Basis(vos[i]) : i \in 1..Len(vos)}

\* what kind of call ran, for the record of the last call
CallTags(c, pre, post) ==
    LET prms == DOMAIN c.params
    IN  {t \in {"two"} : Cardinality(prms) = 2}
        \cup {t \in {"dup"} : \E prm \in prms : \E i, j \in 1..Len(c.params[prm]) :
                                i < j /\ Basis(c.params[prm][i]) = Basis(c.params[prm][j])}
        \cup {t \in {"invalid"} : \E prm \in prms : \E i \in 1..Len(c.params[prm]) :
                                    c.params[prm][i]["value"] \in BadValues}
        \cup {t \in {"insert"} : \E prm \in Params :
                                   Bases(post.data[prm]) \ Bases(pre.data[prm]) # {}}
        \cup {t \in {"delete"} : \E prm \in Params :
                                   Bases(pre.data[prm]) \ Bases(post.data[prm]) # {}}
        \cup {t \in {"update"} : \E prm \in Params : \E x \in Range(pre.data[prm]) :
                                   \E y \in Range(post.data[prm]) :
                                       Basis(x) = Basis(y) /\ x["value"] # y["value"]}
        \cup {t \in {"partly_valid"} : \E l \in DOMAIN c.labels \cap LabelNames :
                                   \A v \in Range(c.labels[l]) :
                                       v \in Range(_stateless_label_grid[l])}
        \cup {t \in {"had_state"} : DOMAIN pre.state # {}}
        \cup {t \in {"gap_first"} : \E prm \in Params : \E x \in Range(post.data[prm]) :
                                   /\ "year" \in DOMAIN x /\ x["year"] = 0
                                   /\ Basis(x) \notin Bases(pre.data[prm])}
        \cup {t \in {"gap_later"} : \E prm \in Params : \E x \in Range(post.data[prm]) :
                                   /\ "year" \in DOMAIN x /\ x["year"] # 0
                                   /\ Basis(x) \notin Bases(pre.data[prm])}

Issue(c) ==
    /\ call = Idle
    /\ nops < MaxOps
    /\ call' = c
    /\ UNCHANGED <<label_to_extend, _data, _state, label_grid, _errors, views, last, nops,
                   stack>>

Return(r) ==
    /\ _data' = r.s.data
    /\ _state' = r.s.state
    /\ label_grid' = r.s.grid
    /\ _errors' = r.s.errors
    /\ views' = r.s.views
    /\ call' = Idle
    /\ last' = [op |-> call.op, out |-> r.out, tags |-> CallTags(call, Cur, r.s),
                param |-> "", ret |-> <<>>]
    /\ nops' = nops + 1
    /\ UNCHANGED <<label_to_extend, stack>>

\* what the pending adjust call does to the instance
AdjustResult ==
    adjust(Cur, label_to_extend, call.params, call.raise_errors, call.extend_adj, call.rej)

Adjust    == call.op = "adjust" /\ Return(AdjustResult)

SetState  == call.op = "set_state" /\ Return(_set_state(Cur, Params, call.labels))

ClearState == call.op = "clear_state" /\ Return(clear_state(Cur))

Extend    == call.op = "extend"
             /\ Return(extend(Cur, label_to_extend, TRUE, {}, call.raise_errors, FALSE))

CallAdjust(params, raise_errors, extend_adj, rej) ==
    Issue([Idle EXCEPT !.op = "adjust", !.params = params, !.raise_errors = raise_errors,
                       !.extend_adj = extend_adj, !.rej = rej])

CallSetState(labels) == Issue([Idle EXCEPT !.op = "set_state", !.labels = labels])

CallClearState == Issue([Idle EXCEPT !.op = "clear_state"])

CallExtend == Issue([Idle EXCEPT !.op = "extend"])

\* to_array and from_array change no field of the instance and are not
\* counted in nops
IssueQuery(c) ==
    /\ call = Idle
    /\ call' = c
    /\ UNCHANGED <<label_to_extend, _data, _state, label_grid, _errors, views, last, nops,
                   stack>>

ReturnQuery(r) ==
    /\ call' = Idle
    /\ last' = [op |-> call.op, out |-> r.out, tags |-> {}, param |-> call.param,
                ret |-> r.ret]
    /\ UNCHANGED <<label_to_extend, _data, _state, label_grid, _errors, views, nops,
                   stack>>

\* what an uninitialized cell of np.empty may hold
JunkValues == {None, 7}

ToArrayReturn(r) ==
    [out |-> r.out, ret |-> [kind |-> r.kind, arr |-> r.arr, missing |-> r.missing]]

ToArray   == call.op = "to_array"
             /\ \E junk \in JunkValues :
                    ReturnQuery(ToArrayReturn(to_array(Cur, call.param, junk)))

FromArray == call.op = "from_array"
             /\ ReturnQuery(from_array(Cur, call.param, call.array))

CallToArray == \E param \in Params : IssueQuery([Idle EXCEPT !.op = "to_array", !.param = param])

\* from_array(param, array) with the array the to_array before it returned
CallFromArray ==
    /\ last.op = "to_array" /\ last.out = "ok" /\ last.ret.kind = "array"
    /\ IssueQuery([Idle EXCEPT !.op = "from_array", !.param = last.param,
                               !.array = last.ret.arr])

----------------------------------------------------------------------------
(* Specification of an instance without an extend label *)

MergeDefaults ==
    { [p |-> <<[dim0 |-> 0, year |-> 0, value |-> 1],
               [dim0 |-> 0, year |-> 1, value |-> 1],
               [dim0 |-> 1, year |-> 0, value |-> 2]>>,
       q |-> <<[year |-> 0, value |-> 1], [year |-> 1, value |-> 2]>>],
      [p |-> <<[dim0 |-> 0, value |-> 1], [dim0 |-> 1, value |-> 2]>>,
       q |-> <<[value |-> 1]>>] }

StateInputs ==
    { <<>>, [dim0 |-> <<0>>], [dim0 |-> <<1>>], [year |-> <<1>>], [year |-> <<0, 1>>],
      [dim0 |-> <<0>>, year |-> <<1>>],
      [dim0 |-> <<5>>], [dim9 |-> <<0>>], [dim0 |-> <<1>>, year |-> <<7>>],
      [dim9 |-> <<0>>, year |-> <<1>>] }

MergeValues == {2, None}

\* the value objects of adjustments of p and of q; one of each fails
\* validation
MergeP == FullVOs({0, 1}, MergeValues) \cup Dim0VOs(MergeValues)
              \cup {[dim0 |-> 0, year |-> 0, value |-> 9]}

MergeQ == YearVOs({0, 1}, MergeValues) \cup {[value |-> 2], [year |-> 1, value |-> 9]}

\* adjustments with failing records of q alone or of both parameters: q's
\* list has scalar and list-valued failing values and a valid record
ErrorQ == YearVOs({1}, {2, 9, 99})

ErrorBatches ==
    {("q" :> <<b>>) : b \in YearVOs({1}, {99})}
    \cup {("p" :> <<[dim0 |-> 0, year |-> 0, value |-> 9]>>) @@ ("q" :> <<b, c>>) :
              b \in ErrorQ, c \in ErrorQ}

\* adjustments of one parameter by one value object, or by two (of p: two of
\* dim0 = 1, of q: two of year = 1 or without labels), or of both
\* parameters by one value object each
MergeBatches ==
    {("p" :> <<a>>) : a \in MergeP}
    \cup {("q" :> <<b>>) : b \in MergeQ}
    \cup {("p" :> <<a, b>>) : a, b \in {x \in MergeP : x["dim0"] = 1}}
    \cup {("q" :> <<a, b>>) : a, b \in {x \in MergeQ : "year" \in DOMAIN x => x["year"] = 1}}
    \cup {("p" :> <<a>>) @@ ("q" :> <<b>>) :
              a \in {x \in MergeP : "year" \in DOMAIN x /\ x["dim0"] = 0 /\ x["year"] = 0},
              b \in MergeQ}
    \cup ErrorBatches

Init == \E d \in MergeDefaults : Start(__init__(d, NoLabel, <<>>), NoLabel)

CallAdjustMerge == \E params \in MergeBatches, raise_errors \in BOOLEAN :
                       CallAdjust(params, raise_errors, TRUE, {})

CallSetStateAny == \E labels \in StateInputs : CallSetState(labels)

Next == \/ CallAdjustMerge
        \/ CallSetStateAny
        \/ CallClearState
        \/ Adjust
        \/ SetState
        \/ ClearState

Spec == Init /\ [][Next]_vars

----------------------------------------------------------------------------
(* Specification of an instance whose extend label is year *)

ExtDefaults ==
    { [p |-> <<[dim0 |-> 0, year |-> 0, value |-> 1],
               [dim0 |-> 1, year |-> 1, value |-> 1]>>,
       q |-> <<[year |-> 0, value |-> 1], [year |-> 2, value |-> 2]>>],
      [p |-> <<[dim0 |-> 0, value |-> 1]>>,
       q |-> <<[year |-> 1, value |-> 2]>>] }

ExtStateInputs == { [year |-> <<2>>], [year |-> <<0, 1>>], [dim0 |-> <<1>>], [dim9 |-> <<0>>] }

ExtValues == {2, None}

\* the value objects of adjustments of p and of q
ExtP == FullVOs({0, 1, 2}, ExtValues)

ExtQ == YearVOs({0, 1, 2}, ExtValues)

\* adjustments of p by one value object, and of q by one, or by two at
\* different grid positions, the earlier first
ExtOneParam ==
    {("p" :> <<a>>) : a \in ExtP}
    \cup {("q" :> <<b>>) : b \in ExtQ}
    \cup {("q" :> <<c[1], c[2]>>) : c \in {d \in ExtQ \X ExtQ : d[1]["year"] < d[2]["year"]}}

\* adjustments of both parameters by one value object each
ExtTwoParams ==
    {("p" :> <<a>>) @@ ("q" :> <<b>>) :
        a \in {x \in ExtP : x["dim0"] = 0 /\ x["year"] = 1},
        b \in {x \in ExtQ : x["year"] <= 1 /\ (x["year"] = 0 => x["value"] # None)}}

ExtBatches == ExtOneParam \cup ExtTwoParams

InitExt == \E d \in ExtDefaults : Start(__init__(d, "year", <<>>), "year")

\* an adjust with extension; rej: the parameters whose value objects the
\* validator rejects when adjust loads them again on their own
CallAdjustExt ==
    \E params \in ExtBatches :
        \E rej \in {r \in SUBSET DOMAIN params : r = {} \/ Cardinality(DOMAIN params) = 2} :
            CallAdjust(params, TRUE, TRUE, rej)

\* an adjust with extend_adj=False
CallAdjustNoExt == \E params \in ExtOneParam : CallAdjust(params, TRUE, FALSE, {})

CallSetStateExt == \E labels \in ExtStateInputs : CallSetState(labels)

NextExt == \/ CallAdjustExt
           \/ CallAdjustNoExt
           \/ CallSetStateExt
           \/ CallClearState
           \/ CallExtend
           \/ Adjust
           \/ SetState
           \/ ClearState
           \/ Extend

SpecExt == InitExt /\ [][NextExt]_vars

----------------------------------------------------------------------------
(* Specification of an instance whose parameters are projected to arrays *)

ArrDefaults ==
    { [p |-> <<[dim0 |-> 0, year |-> 0, value |-> 1],
               [dim0 |-> 0, year |-> 1, value |-> 2],
               [dim0 |-> 1, year |-> 0, value |-> 4],
               [dim0 |-> 0, year |-> 2, value |-> 3],
               [dim0 |-> 1, year |-> 1, value |-> 5],
               [dim0 |-> 1, year |-> 2, value |-> 6]>>,
       q |-> <<[value |-> 1]>>],
      [p |-> <<[dim0 |-> 1, value |-> 2], [dim0 |-> 0, value |-> 1]>>,
       q |-> <<[year |-> 2, value |-> 3], [year |-> 0, value |-> 1],
               [year |-> 1, value |-> 2]>>] }

ArrStateInputs ==
    { [dim0 |-> <<1>>], [year |-> <<1, 2>>], [year |-> <<2, 0>>],
      [dim0 |-> <<0>>, year |-> <<1>>], [year |-> <<7>>] }

\* adjustments of one parameter by one value object: a delete, or a new value
ArrBatches ==
    {("p" :> <<a>>) : a \in FullVOs({0, 1, 2}, {None}) \cup Dim0VOs({None})
                              \cup {[dim0 |-> 0, year |-> 0, value |-> 8]}}
    \cup {("q" :> <<b>>) : b \in YearVOs({0, 1, 2}, {None}) \cup BareVOs({None})
                                   \cup {[year |-> 1, value |-> 8]}}

InitArr == \E d \in ArrDefaults : Start(__init__(d, NoLabel, <<>>), NoLabel)

CallAdjustArr == \E params \in ArrBatches : CallAdjust(params, TRUE, TRUE, {})

CallSetStateArr == \E labels \in ArrStateInputs : CallSetState(labels)

NextArr == \/ CallAdjustArr
           \/ CallSetStateArr
           \/ CallClearState
           \/ CallToArray
           \/ CallFromArray
           \/ Adjust
           \/ SetState
           \/ ClearState
           \/ ToArray
           \/ FromArray

SpecArr == InitArr /\ [][NextArr]_vars

----------------------------------------------------------------------------
(* Specification of an instance that is queried with specification() *)

\* specification(use_state=..., **labels), with the other flags at their
\* defaults
Specification ==
    /\ call.op = "specification"
    /\ ReturnQuery([out |-> "ok",
                    ret |-> specification(Cur, call.use_state, FALSE, call.labels)])

QueryLabelInputs ==
    { <<>>, [dim0 |-> <<0>>], [dim0 |-> <<1>>], [year |-> <<1>>], [year |-> <<0, 1>>],
      [dim0 |-> <<1>>, year |-> <<0>>] }

CallSpecification ==
    \E labels \in QueryLabelInputs, use_state \in BOOLEAN :
        IssueQuery([Idle EXCEPT !.op = "specification", !.labels = labels,
                                !.use_state = use_state])

QueryStateInputs == { [dim0 |-> <<0>>], [year |-> <<1>>], [year |-> <<0, 1>>] }

QueryBatches ==
    {("p" :> <<a>>) : a \in FullVOs({0, 1}, {2, None})}
    \cup {("q" :> <<b>>) : b \in YearVOs({0, 1}, {2}) \cup YearVOs({1}, {None})}

CallAdjustQuery == \E params \in QueryBatches : CallAdjust(params, TRUE, TRUE, {})

CallSetStateQuery == \E labels \in QueryStateInputs : CallSetState(labels)

NextQuery == \/ CallAdjustQuery
             \/ CallSetStateQuery
             \/ CallClearState
             \/ CallSpecification
             \/ Adjust
             \/ SetState
             \/ ClearState
             \/ Specification

SpecQuery == Init /\ [][NextQuery]_vars

----------------------------------------------------------------------------
(* adjust and extend, call by call: every invocation of adjust or extend   *)
(* is a frame of the stack; a frame runs up to its next call of adjust or  *)
(* extend, and goes on when the callee has returned or raised.             *)

\* a faulty variant of InnerExtendAdj: the argument is left at its default
InnerExtendAdjDefault == TRUE

\* the extend_adj argument of the calls of adjust made by adjust and by
\* extend (lines 171, 176 and 439)
InnerExtendAdj == FALSE

\* a frame at its first statement. rejall: the validator rejects every value
\* object this frame loads; all, only: the params argument of extend (None,
\* or a list); child: how the frame's last callee ended
NewFrame(fn, params, raise_errors, extend_adj, rejall, rej, all, only) ==
    [fn |-> fn, params |-> params, raise_errors |-> raise_errors,
     extend_adj |-> extend_adj, rejall |-> rejall, rej |-> rej, all |-> all,
     only |-> only, pc |-> "start", n |-> 1, backup |-> <<>>, parsed |-> <<>>,
     child |-> "none"]

Top == stack[Len(stack)]

Running(fn, pc) == stack # <<>> /\ Top.fn = fn /\ Top.pc = pc

\* the frame on top goes on as f
Goto(f) ==
    /\ stack' = [stack EXCEPT ![Len(stack)] = f]
    /\ UNCHANGED <<call, last, nops>>

\* the frame on top, going on as f, calls adjust or extend
Invoke(f, callee) ==
    /\ stack' = Append([stack EXCEPT ![Len(stack)] = f], callee)
    /\ UNCHANGED <<call, last, nops>>

\* the frame on top returns (out = "ok") or raises out, to its caller's
\* frame or to the caller of the instance
Leave(out) ==
    IF Len(stack) = 1
    THEN /\ stack' = <<>>
         /\ call' = Idle
         /\ last' = [op |-> call.op, out |-> out, tags |-> {}, param |-> "", ret |-> <<>>]
         /\ nops' = nops + 1
    ELSE /\ stack' = [SubSeq(stack, 1, Len(stack) - 1) EXCEPT ![Len(stack) - 1].child = out]
         /\ UNCHANGED <<call, last, nops>>

\* the instance starts to run the pending adjust or extend
Enter ==
    /\ stack = <<>>
    /\ call.op \in {"adjust", "extend"}
    /\ stack' = << IF call.op = "adjust"
                   THEN NewFrame("adjust", call.params, call.raise_errors,
                                 call.extend_adj, FALSE, call.rej, FALSE, {})
                   ELSE NewFrame("extend", <<>>, call.raise_errors, FALSE, FALSE, {},
                                 TRUE, {}) >>
    /\ UNCHANGED <<label_to_extend, _data, _state, label_grid, _errors, views, call,
                   last, nops>>

\* adjust, lines 112-123: the load of the input, and where adjust goes on
AdjustValidate ==
    /\ Running("adjust", "start")
    /\ LET off == IF Top.rejall THEN AllOffending(Top.params) ELSE Offending(Top.params)
           errs == IF Fails(off) THEN _parse_errors(Top.params, off) ELSE _errors
       IN  /\ _errors' = errs
           /\ Goto([Top EXCEPT !.parsed = IF Fails(off) THEN <<>> ELSE Top.params,
                               !.pc = IF HasErrors(errs) THEN "finish"
                                      ELSE IF label_to_extend # NoLabel /\ Top.extend_adj
                                      THEN "loop"
                                      ELSE "merge"])
    /\ UNCHANGED <<label_to_extend, _data, _state, label_grid, views>>

\* adjust, lines 183-185: the merge of every parameter; a KeyError leaves
\* adjust
AdjustMerge ==
    /\ Running("adjust", "merge")
    /\ LET Then(r) ==
               /\ _data' = r.data
               /\ IF r.err THEN Leave("KeyError") ELSE Goto([Top EXCEPT !.pc = "finish"])
       IN  Then(MergeFrom(_data, Top.parsed, 1))
    /\ UNCHANGED <<label_to_extend, _state, label_grid, _errors, views>>

\* adjust, lines 124-173: the next parameter of the loop, its to_delete and
\* backup, and the call of adjust that deletes
AdjustLoop ==
    /\ Running("adjust", "loop")
    /\ IF Top.n > Len(ParamOrder)
       THEN Goto([Top EXCEPT !.pc = "finish"])
       ELSE IF ParamOrder[Top.n] \notin DOMAIN Top.parsed
       THEN Goto([Top EXCEPT !.n = Top.n + 1])
       ELSE Invoke([Top EXCEPT !.backup = _data[ParamOrder[Top.n]], !.pc = "deleted"],
                   NewFrame("adjust",
                            ParamOrder[Top.n] :>
                                ToDelete(_data[ParamOrder[Top.n]],
                                         Top.parsed[ParamOrder[Top.n]], label_to_extend,
                                         _stateless_label_grid[label_to_extend]),
                            TRUE, InnerExtendAdj, FALSE, {}, FALSE, {}))
    /\ UNCHANGED <<label_to_extend, _data, _state, label_grid, _errors, views>>

\* adjust, lines 181-182: a callee raised. A ValidationError restores the
\* parameter's backup and the loop goes on; any other exception leaves
\* adjust
Recover ==
    IF Top.child = "ValidationError"
    THEN /\ _data' = [_data EXCEPT ![ParamOrder[Top.n]] = Top.backup]
         /\ Goto([Top EXCEPT !.n = Top.n + 1, !.pc = "loop", !.backup = <<>>])
    ELSE /\ _data' = _data
         /\ Leave(Top.child)

\* adjust, lines 174-177: after the delete, the call of adjust that applies
\* the user's value objects
AdjustAfterDelete ==
    /\ Running("adjust", "deleted")
    /\ IF Top.child = "ok"
       THEN /\ Invoke([Top EXCEPT !.pc = "applied"],
                      NewFrame("adjust", ParamOrder[Top.n] :> Top.parsed[ParamOrder[Top.n]],
                               TRUE, InnerExtendAdj, ParamOrder[Top.n] \in Top.rej, {},
                               FALSE, {}))
            /\ _data' = _data
       ELSE Recover
    /\ UNCHANGED <<label_to_extend, _state, label_grid, _errors, views>>

\* adjust, lines 178-180: after the user's value objects, the call of extend
AdjustAfterApply ==
    /\ Running("adjust", "applied")
    /\ IF Top.child = "ok"
       THEN /\ Invoke([Top EXCEPT !.pc = "extended"],
                      NewFrame("extend", <<>>, TRUE, FALSE, FALSE, {}, FALSE,
                               {ParamOrder[Top.n]}))
            /\ _data' = _data
       ELSE Recover
    /\ UNCHANGED <<label_to_extend, _state, label_grid, _errors, views>>

\* adjust, line 124: after extend, the next parameter
AdjustAfterExtend ==
    /\ Running("adjust", "extended")
    /\ IF Top.child = "ok"
       THEN /\ Goto([Top EXCEPT !.n = Top.n + 1, !.pc = "loop", !.backup = <<>>])
            /\ _data' = _data
       ELSE Recover
    /\ UNCHANGED <<label_to_extend, _state, label_grid, _errors, views>>

\* adjust, lines 187-195: raise the stored failures, or refresh the views of
\* the adjusted parameters and return
AdjustFinish ==
    /\ Running("adjust", "finish")
    /\ IF Top.raise_errors /\ HasErrors(_errors)
       THEN /\ views' = views
            /\ Leave("ValidationError")
       ELSE /\ views' = _set_state(Cur, DOMAIN Top.parsed, <<>>).s.views
            /\ Leave("ok")
    /\ UNCHANGED <<label_to_extend, _data, _state, label_grid, _errors>>

\* extend, lines 357-440: the adjustment, and the call of adjust that loads
\* it; the KeyError of sorted() leaves extend
ExtendBuild ==
    /\ Running("extend", "start")
    /\ IF ExtendKeyError(Cur, label_to_extend, Top.all, Top.only)
       THEN Leave("KeyError")
       ELSE Invoke([Top EXCEPT !.pc = "adjusted"],
                   NewFrame("adjust",
                            ExtendAdjustment(Cur, label_to_extend, Top.all, Top.only),
                            Top.raise_errors, InnerExtendAdj, FALSE, {}, FALSE, {}))
    /\ UNCHANGED <<label_to_extend, _data, _state, label_grid, _errors, views>>

\* extend, line 440: extend ends as its call of adjust ended
ExtendReturn ==
    /\ Running("extend", "adjusted")
    /\ Leave(Top.child)
    /\ UNCHANGED <<label_to_extend, _data, _state, label_grid, _errors, views>>

\* a frame runs
RunFrame ==
    \/ Enter
    \/ AdjustValidate
    \/ AdjustMerge
    \/ AdjustLoop
    \/ AdjustAfterDelete
    \/ AdjustAfterApply
    \/ AdjustAfterExtend
    \/ AdjustFinish
    \/ ExtendBuild
    \/ ExtendReturn

\* adjustments of p and of q by one value object, and of both
FrameBatches ==
    {("p" :> <<a>>) : a \in FullVOs({1}, {2}) \cup {[dim0 |-> 0, year |-> 1, value |-> 9]}}
    \cup {("q" :> <<b>>) : b \in YearVOs({0, 1}, {2}) \cup YearVOs({1}, {None})}
    \cup {("p" :> <<[dim0 |-> 0, year |-> 1, value |-> 2]>>) @@ ("q" :> <<b>>) :
              b \in YearVOs({0}, {2})}

\* raise_errors is false only for an adjustment that has a failure to store
CallAdjustFrames ==
    \E params \in FrameBatches, raise_errors \in BOOLEAN, extend_adj \in BOOLEAN :
        \E rej \in {r \in SUBSET DOMAIN params :
                       r = {} \/ (Cardinality(DOMAIN params) = 2 /\ extend_adj)} :
            /\ raise_errors \/ rej # {} \/ Fails(Offending(params))
            /\ CallAdjust(params, raise_errors, extend_adj, rej)

NextFrames == \/ CallAdjustFrames
              \/ CallExtend
              \/ Enter
              \/ AdjustValidate
              \/ AdjustMerge
              \/ AdjustLoop
              \/ AdjustAfterDelete
              \/ AdjustAfterApply
              \/ AdjustAfterExtend
              \/ AdjustFinish
              \/ ExtendBuild
              \/ ExtendReturn

\* a call in progress goes on: the instance is single-threaded and no step
\* of adjust or extend waits for anything
SpecFrames == InitExt /\ [][NextFrames]_vars /\ WF_vars(RunFrame)

----------------------------------------------------------------------------
(* Steps in which a call runs *)

Ran(op) == call.op = op /\ call' = Idle

\* the adjust that ran validated and merged its input
AdjustMerged ==
    /\ Ran("adjust")
    /\ last'.out = "ok"
    /\ ~HasErrors(_errors')

\* specification(use_state=false, **labels) of one parameter in a store
Query(data, prm, lbls) == select_eq(data[prm], FALSE, AsPredicates(lbls))

\* the query by r's labels returns records, all carrying r's labels and value
ReadsBack(data, prm, r) ==
    LET res == Query(data, prm, Basis(r))
    IN  /\ res # <<>>
        /\ \A i \in 1..Len(res) :
              /\ res[i]["value"] = r["value"]
              /\ \A k \in Labels(r) : k \in DOMAIN res[i] /\ res[i][k] = r[k]

\* two value objects agree on every label both carry
Overlap(r1, r2) == \A k \in Labels(r1) \cap Labels(r2) : r1[k] = r2[k]

----------------------------------------------------------------------------
(* Claims about the merge *)

\* C1 as stated: with empty State and no extend label, after adjust succeeds,
\* for every incoming non-delete record r of every parameter of the batch,
\* the query by r's labels returns the record(s) with r's labels carrying r's
\* value.
C1_ReadYourWriteEveryRecord ==
    [][(AdjustMerged /\ label_to_extend = NoLabel /\ DOMAIN _state = {})
        => \A prm \in DOMAIN call.params : \A i \in 1..Len(call.params[prm]) :
              call.params[prm][i]["value"] # None
                  => ReadsBack(_data', prm, call.params[prm][i])]_vars

\* C1 as amended: the same for every incoming non-delete record r that no
\* later record of the same parameter's list agrees with on the labels the
\* two share (the later record is merged after r and wins).
C1_ReadYourWrite ==
    [][(AdjustMerged /\ label_to_extend = NoLabel /\ DOMAIN _state = {})
        => \A prm \in DOMAIN call.params : \A i \in 1..Len(call.params[prm]) :
              (/\ call.params[prm][i]["value"] # None
               /\ \A j \in (i + 1)..Len(call.params[prm]) :
                      ~Overlap(call.params[prm][i], call.params[prm][j]))
                  => ReadsBack(_data', prm, call.params[prm][i])]_vars

\* C1 witness: an adjust of two parameters at once merged, and changed a
\* stored value
C1_Witness ==
    /\ last.op = "adjust" /\ last.out = "ok" /\ ~HasErrors(_errors)
    /\ label_to_extend = NoLabel /\ DOMAIN _state = {}
    /\ {"two", "update"} \subseteq last.tags

\* C2: no parameter has two stored records with the same label-tuple
C2_UniqueLabelTuples ==
    \A prm \in Params : \A i, j \in 1..Len(_data[prm]) :
        i # j => Basis(_data[prm][i]) # Basis(_data[prm][j])

\* C2 witness: a batch naming one label-tuple twice inserted a record
C2_Witness ==
    /\ last.op = "adjust" /\ last.out = "ok"
    /\ {"dup", "insert"} \subseteq last.tags

\* C3: an adjustment of one delete record whose labels equal the label basis
\* of a stored record removes that record; every other stored record of that
\* parameter and of every other parameter stays, in place, with its value.
C3_DeleteSentinel ==
    [][(AdjustMerged /\ (label_to_extend = NoLabel \/ ~call.extend_adj))
        => \A prm \in DOMAIN call.params :
              (/\ DOMAIN call.params = {prm}
               /\ Len(call.params[prm]) = 1
               /\ call.params[prm][1]["value"] = None)
                  => \A j \in 1..Len(_data[prm]) :
                        Basis(_data[prm][j]) = Basis(call.params[prm][1])
                            => _data' = [_data EXCEPT ![prm] =
                                   KeepIdx(_data[prm], (1..Len(_data[prm])) \ {j}, 1)]]_vars

\* C3 witness: a delete record removed a stored record of a parameter that
\* keeps other records
C3_Witness ==
    /\ last.op = "adjust" /\ last.out = "ok" /\ ~HasErrors(_errors)
    /\ "delete" \in last.tags /\ last.tags \cap {"insert", "update", "two"} = {}
    /\ \E prm \in Params : Len(_data[prm]) >= 2

\* C8: set_state with an unknown label name or a label value its validator
\* rejects raises and leaves State, the working grid and every view as they
\* were, whatever other labels the call supplies.
C8_SetStateFailureKeepsState ==
    [][(Ran("set_state")
        /\ \E name \in DOMAIN call.labels :
              \/ name \notin LabelNames
              \/ \E v \in Range(call.labels[name]) :
                    v \notin Range(_stateless_label_grid[name]))
        => /\ last'.out = "ValidationError"
           /\ UNCHANGED <<_state, label_grid, views, _data>>]_vars

\* C8 witness: a set_state naming a valid label and a failing one raised in
\* an instance whose State was not empty
C8_Witness ==
    /\ last.op = "set_state" /\ last.out = "ValidationError"
    /\ {"partly_valid", "had_state"} \subseteq last.tags

\* C9: an adjust whose batch has a record that fails validation changes no
\* stored record of any parameter, whether it raises or stores the failures.
C9_ValidationFailureMutatesNothing ==
    [][(Ran("adjust")
        /\ \E prm \in DOMAIN call.params : \E i \in 1..Len(call.params[prm]) :
              call.params[prm][i]["value"] \in BadValues)
        => /\ _data' = _data
           /\ HasErrors(_errors')
           /\ last'.out = (IF call.raise_errors THEN "ValidationError" ELSE "ok")]_vars

\* C9 witness: an adjust of two parameters, one of them with a failing
\* record, returned with the failures stored
C9_Witness ==
    /\ last.op = "adjust" /\ last.out = "ok" /\ HasErrors(_errors)
    /\ {"two", "invalid"} \subseteq last.tags

----------------------------------------------------------------------------
(* Claims about the extension *)

ExtGrid == _stateless_label_grid[label_to_extend]

\* the cohort of a value object: its labels other than the extend label
Cohort(vo) == filter_labels(vo, {"value", label_to_extend})

\* the values a store holds for a cohort of a parameter at a grid value
ValsAt(data, prm, c, g) ==
    {data[prm][j]["value"] :
        j \in {k \in 1..Len(data[prm]) :
                 /\ label_to_extend \in DOMAIN data[prm][k]
                 /\ Cohort(data[prm][k]) = c
                 /\ data[prm][k][label_to_extend] = g}}

\* the grid positions of the records of a list, other than the i-th, that
\* belong to the cohort of the i-th
OtherPositions(vos, i) ==
    {Index(ExtGrid, vos[j][label_to_extend]) :
        j \in {k \in 1..Len(vos) : k # i /\ Cohort(vos[k]) = Cohort(vos[i])}}

\* the override of one non-delete record r of a batch, the last of its list
\* with its labels: every position from r's up to the next record of r's
\* cohort in the batch holds r's value, and when r is the cohort's earliest
\* record in the batch every earlier position keeps the value it had
OverrideHolds(prm, vos, i) ==
    LET r == vos[i]
        c == Cohort(r)
        p == Index(ExtGrid, r[label_to_extend])
        others == OtherPositions(vos, i)
    IN  /\ \A g \in p..Len(ExtGrid) :
              (\A o \in others : ~(p < o /\ o <= g))
                  => ValsAt(_data', prm, c, ExtGrid[g]) = {r["value"]}
        /\ \A g \in 1..(p - 1) :
              (others \cap 1..(p - 1) = {} /\ ValsAt(_data, prm, c, ExtGrid[g]) # {})
                  => ValsAt(_data', prm, c, ExtGrid[g]) = ValsAt(_data, prm, c, ExtGrid[g])

OverrideEverywhere ==
    \A prm \in DOMAIN call.params : \A i \in 1..Len(call.params[prm]) :
        (/\ call.params[prm][i]["value"] # None
         /\ \A j \in (i + 1)..Len(call.params[prm]) :
                Basis(call.params[prm][j]) # Basis(call.params[prm][i]))
            => OverrideHolds(prm, call.params[prm], i)

\* C4: with an extend label and extension enabled, after an adjust with an
\* explicit record at grid position p with value v, every position >= p of
\* the record's cohort holds v, up to the next record of the cohort in the
\* batch, and every position before p keeps its value. Stated for every
\* State, as the claim is.
C4_ExtensionOverride ==
    [][(AdjustMerged /\ label_to_extend # NoLabel /\ call.extend_adj)
        => OverrideEverywhere]_vars

\* the records of a parameter all carry the extend label, with one label set
ConsistentWithLabel(vos) ==
    /\ vos # <<>>
    /\ \A i \in 1..Len(vos) :
          label_to_extend \in DOMAIN vos[i] /\ Labels(vos[i]) = Labels(vos[1])

\* the grid positions at which a store holds a record of a cohort
Defined(data, prm, c) ==
    {g \in 1..Len(ExtGrid) : ValsAt(data, prm, c, ExtGrid[g]) # {}}

\* after the step every cohort of prm has exactly one record at every grid
\* position, and each record that was missing carries the value of the
\* position before it, or at the first position the value of the cohort's
\* stored record at the smallest position
ClosedAndFilled(prm) ==
    \A c \in {Cohort(_data[prm][j]) : j \in 1..Len(_data[prm])} :
        \A g \in 1..Len(ExtGrid) :
            /\ Cardinality({j \in 1..Len(_data'[prm]) :
                               /\ label_to_extend \in DOMAIN _data'[prm][j]
                               /\ Cohort(_data'[prm][j]) = c
                               /\ _data'[prm][j][label_to_extend] = ExtGrid[g]}) = 1
            /\ g \notin Defined(_data, prm, c)
                  => ValsAt(_data', prm, c, ExtGrid[g])
                        = IF g > 1
                          THEN ValsAt(_data', prm, c, ExtGrid[g - 1])
                          ELSE ValsAt(_data, prm, c, ExtGrid[Min(Defined(_data, prm, c))])

\* C5: with empty State, after extend completes on a parameter whose records
\* carry the extend label with a consistent label set, every cohort has
\* exactly one record at every grid position; a record that was missing at
\* an index > 0 carries the value of the cohort's nearest earlier record, and
\* one missing at index 0 the value of the cohort's stored record with the
\* smallest grid index.
C5_ExtensionClosure ==
    [][(Ran("extend") /\ last'.out = "ok" /\ ~HasErrors(_errors') /\ DOMAIN _state = {})
        => \A prm \in Params : ConsistentWithLabel(_data[prm]) => ClosedAndFilled(prm)]_vars

\* C5 witness: with empty State an extend completed and added records to a
\* parameter that had a gap at the first grid position and one after it
C5_Witness ==
    /\ last.op = "extend" /\ last.out = "ok" /\ ~HasErrors(_errors)
    /\ DOMAIN _state = {} /\ label_to_extend # NoLabel
    /\ {"insert", "gap_first", "gap_later"} \subseteq last.tags

\* the outcome for one parameter of the pending adjust had the batch named
\* that parameter alone and no failure occurred
AdjustedAlone(prm) ==
    adjust(Cur, label_to_extend, prm :> call.params[prm], TRUE, TRUE, {})

\* C10: in an adjust with extension over several parameters in which the
\* steps of parameter P fail, P's stored records are restored to what they
\* were, and every other parameter of the batch whose steps succeed ends
\* with its adjustment applied (it holds the records it would hold had the
\* batch named it alone), whether it is processed before or after P.
C10_ScopedRollback ==
    [][(Ran("adjust") /\ label_to_extend # NoLabel /\ call.extend_adj
        /\ ~HasErrors(_errors) /\ call.rej # {})
        => /\ \A prm \in call.rej : _data'[prm] = _data[prm]
           /\ \A prm \in DOMAIN call.params \ call.rej :
                 AdjustedAlone(prm).out = "ok"
                     => Range(_data'[prm]) = Range(AdjustedAlone(prm).s.data[prm])]_vars

----------------------------------------------------------------------------
(* Claims about the array projection *)

CurNext == Bundle(_data', _state', label_grid', _errors', views')

\* the state-filtered record set of a parameter
Filtered(param) == select_eq(_data[param], FALSE, _state)

FilteredNext(param) == select_eq(_data'[param], FALSE, _state')

\* the label combinations of the working grid over a label set
Combinations(lbls) ==
    {f \in [lbls -> UNION {Range(label_grid[l]) : l \in LabelNames}] :
        \A l \in lbls : f[l] \in Range(label_grid[l])}

\* the state-filtered record set of a parameter is dense: its records carry
\* one label set and are, one each, the combinations of the working grid
Dense(param) ==
    LET R == Filtered(param)
    IN  /\ R # <<>>
        /\ \A j \in 1..Len(R) : Labels(R[j]) = Labels(R[1])
        /\ {Basis(R[j]) : j \in 1..Len(R)} = Combinations(Labels(R[1]))
        /\ Len(R) = Cardinality(Combinations(Labels(R[1])))

\* C6: for a parameter whose state-filtered record set is dense, to_array
\* returns an array, and from_array of that array under the same State
\* returns the record set, as a set of value objects.
C6_ArrayRoundTrip ==
    /\ (last.op = "to_array" /\ Dense(last.param))
          => last.out = "ok" /\ last.ret.kind = "array"
    /\ (last.op = "from_array" /\ Dense(last.param))
          => last.out = "ok" /\ Range(last.ret) = Range(Filtered(last.param))

\* C6 witness: from_array returned the records of a dense set of several
\* records, narrowed by a State, whose stored order is not the grid's
C6_Witness ==
    /\ last.op = "from_array" /\ last.out = "ok" /\ Dense(last.param)
    /\ DOMAIN _state # {} /\ Len(last.ret) >= 2
    /\ last.ret # Filtered(last.param)

\* the adjust that ran removed the j-th record of the dense state-filtered
\* record set of a parameter and nothing else of it
RemovedFromDense(param, j) ==
    /\ Ran("adjust")
    /\ Dense(param)
    /\ j \in 1..Len(Filtered(param))
    /\ FilteredNext(param) = KeepIdx(Filtered(param), (1..Len(Filtered(param))) \ {j}, 1)

\* to_array then fails with the Sparse failure and reports the removed
\* record's label combination, and nothing else
ReportsRemoved(param, j) ==
    LET Reported(r, ro) ==
            /\ r.out = "Sparse"
            /\ r.missing = <<LabelTuple(Filtered(param)[j], ro.label_order)>>
    IN  Reported(to_array(CurNext, param, None), _resolve_order(Cur, param))

----------------------------------------------------------------------------
(* Claims about the errors view *)

\* the parameters of the pending batch with failing records
Failing == {prm \in DOMAIN call.params : Offending(call.params)[prm] # {}}

\* an adjust with raise_errors=false ran on a batch in which several
\* parameters have failing records
StoredSeveralFailures ==
    /\ Ran("adjust")
    /\ ~call.raise_errors
    /\ Cardinality(Failing) >= 2

\* the number of messages the failing records among the first n of a list
\* produce: one for a scalar value, one per bad element for a list
RECURSIVE MessageCount(_, _)
MessageCount(vos, n) ==
    IF n = 0 THEN 0
    ELSE MessageCount(vos, n - 1)
         + (IF vos[n]["value"] \in BadListValues THEN 2
            ELSE IF vos[n]["value"] \in BadValues THEN 1 ELSE 0)

\* C11 as stated: after adjust with raise_errors=false on a batch in which
\* several parameters have failing records, the errors view has exactly one
\* entry per failing parameter, and the length of each entry equals the
\* number of offending records of that parameter, also when an offending
\* record produces more than one message.
C11_ErrorShapePerRecord ==
    [][StoredSeveralFailures
        => /\ DOMAIN errors(_errors') = Failing
           /\ \A prm \in Failing :
                 Len(errors(_errors')[prm]) = Cardinality(Offending(call.params)[prm])]_vars

\* C11 as amended: the errors view has exactly one entry per failing
\* parameter, and the length of each entry equals the number of messages of
\* the offending records of that parameter; it equals the number of
\* offending records when each of them produces one message.
C11_ErrorShape ==
    [][StoredSeveralFailures
        => /\ DOMAIN errors(_errors') = Failing
           /\ \A prm \in Failing :
                 /\ Len(errors(_errors')[prm])
                       = MessageCount(call.params[prm], Len(call.params[prm]))
                 /\ (\A i \in Offending(call.params)[prm] :
                        call.params[prm][i]["value"] \notin BadListValues)
                       => Len(errors(_errors')[prm])
                             = Cardinality(Offending(call.params)[prm])]_vars

\* C11 witness: an adjust with raise_errors=false stored the failures of two
\* parameters, one of them with a record that produced two messages and
\* with fewer offending records than the others
C11_Witness ==
    /\ last.op = "adjust" /\ last.out = "ok"
    /\ {"two", "invalid"} \subseteq last.tags
    /\ DOMAIN _errors = Params
    /\ \E prm \in Params : Len(errors(_errors)[prm]) > Len(_errors[prm])
    /\ \E prm \in Params : Len(errors(_errors)[prm]) = 1

----------------------------------------------------------------------------
(* Claims about specification() *)

\* the records the specification that ran returned for a parameter
Returned(prm) == IF prm \in DOMAIN last'.ret THEN last'.ret[prm] ELSE <<>>

\* C12: specification with use_state=true returns, for every declared
\* parameter, the records matching State combined with the explicit label
\* arguments, an explicit label argument overriding the State's value for
\* the same label: with a = x in State and a = y passed, the records
\* returned are those with a = y.
C12_ExplicitLabelOverridesState ==
    [][(Ran("specification") /\ call.use_state)
        => \A prm \in Params :
              Returned(prm) = select_eq(_data[prm], FALSE, call.labels @@ _state)]_vars

----------------------------------------------------------------------------
(* Claims about the label sets of the stored records *)

\* C13: from defaults in which the records of each parameter share one label
\* set, after any sequence of adjust calls whose input passes validation,
\* inserts of records that match no stored record included, the stored
\* records of each parameter share one label set.
C13_LabelSetConsistency ==
    \A prm \in Params : \A i, j \in 1..Len(_data[prm]) :
        Labels(_data[prm][i]) = Labels(_data[prm][j])

----------------------------------------------------------------------------
(* Claims about applying an adjustment again *)

\* no record of the batch is a delete record
NoDeletes(params) ==
    \A prm \in DOMAIN params : \A i \in 1..Len(params[prm]) :
        params[prm][i]["value"] # None

\* the merge of the pending batch ran: its input passed validation and no
\* failure was stored
MergeRan ==
    /\ Ran("adjust")
    /\ label_to_extend = NoLabel \/ ~call.extend_adj
    /\ ~Fails(Offending(call.params))
    /\ ~HasErrors(_errors)

----------------------------------------------------------------------------
(* Claims about adjust after stored failures *)

\* the instance with no stored failure
WithoutErrors == [Cur EXCEPT !.errors = NoErrors]

\* C15: an adjust whose own input passes validation merges its records into
\* the store and does not raise, in every reachable state of the instance,
\* in particular after an earlier adjust with raise_errors=false stored
\* validation failures; the mapping it returns is the set of records applied.
\* Stated for the batches whose merge raises nothing in an instance without
\* stored failures.
C15_ValidAdjustMerges ==
    [][(Ran("adjust") /\ ~Fails(Offending(call.params)) /\ call.rej = {})
        => LET Merges(fresh, actual) ==
                   fresh.out = "ok"
                       => /\ actual.out = "ok"
                          /\ actual.ret = call.params
                          /\ actual.s.data = fresh.s.data
                          /\ last'.out = "ok"
                          /\ _data' = fresh.s.data
           IN  Merges(adjust(WithoutErrors, label_to_extend, call.params,
                             call.raise_errors, call.extend_adj, call.rej),
                      AdjustResult)]_vars

----------------------------------------------------------------------------
(* Claims about the outcome of to_array *)

\* the records of a list carry one label set
OneLabelSet(R) == \A j \in 1..Len(R) : Labels(R[j]) = Labels(R[1])

----------------------------------------------------------------------------
(* Claims about what extend leaves alone *)

\* C17: extend never overwrites a stored record: in any State, a State that
\* restricts the extend label to a part of its grid included, extend emits
\* fill records only at grid positions for which the cohort has no record in
\* the store, so every record stored before extend is stored with the same
\* value after it.
C17_ExtendKeepsStoredRecords ==
    [][Ran("extend")
        => \A prm \in Params : Range(_data[prm]) \subseteq Range(_data'[prm])]_vars

----------------------------------------------------------------------------
(* Claims about failures of the merge *)

\* C18: the merge raises no error for any incoming record: a record that
\* matches no stored record is appended, or ignored when it is a delete
\* record, without any failure, an incoming record that carries a label key
\* absent from some stored record of the parameter included.
C18_MergeRaisesNothing ==
    [][MergeRan => last'.out = "ok"]_vars

----------------------------------------------------------------------------
(* Claims about the State and the working grid *)

\* for every label the working grid is the State's list of values when the
\* label is in State, and the stateless grid's sequence otherwise
GridFollowsState ==
    \A l \in LabelNames :
        label_grid[l] = IF l \in DOMAIN _state THEN _state[l]
                        ELSE _stateless_label_grid[l]

\* C20: after any sequence of set_state, clear_state and adjust calls, failed
\* calls included, the working grid of every label equals the State's values
\* for the label if the label is in State and the stateless grid's sequence
\* otherwise; a set_state that succeeds adds its labels to the State and the
\* labels it does not supply keep their value, one that fails changes
\* neither State nor grid, and neither does adjust; after clear_state the
\* State is empty and the working grid is the stateless grid.
C20_WorkingGrid ==
    /\ []GridFollowsState
    /\ [][/\ (Ran("set_state") /\ last'.out = "ok") => _state' = call.labels @@ _state
          /\ (Ran("set_state") /\ last'.out # "ok") => UNCHANGED <<_state, label_grid>>
          /\ Ran("adjust") => UNCHANGED <<_state, label_grid>>
          /\ Ran("clear_state")
                => _state' = <<>> /\ label_grid' = _stateless_label_grid]_vars

\* C20 witness: a second set_state added a label to a State that held
\* another, and the working grid is narrowed on both
C20_Witness ==
    /\ last.op = "set_state" /\ last.out = "ok" /\ "had_state" \in last.tags
    /\ _state = [dim0 |-> <<1>>, year |-> <<0, 1>>]
    /\ label_grid = [dim0 |-> <<1>>, year |-> <<0, 1>>]

----------------------------------------------------------------------------
(* Claims about the re-entry of adjust *)

\* an adjust called by adjust or by extend runs with extension disabled and
\* has no callee: it is the last frame of the stack
NestedAdjustIsLeaf ==
    \A i \in 2..Len(stack) :
        stack[i].fn = "adjust" => ~stack[i].extend_adj /\ i = Len(stack)

\* below the caller's adjust or extend there is at most one adjust, and the
\* stack is at most adjust, extend, adjust
BoundedDepth ==
    /\ Len(stack) <= 3
    /\ Cardinality({i \in 2..Len(stack) : stack[i].fn = "adjust"}) <= 1

\* C19: every adjust call terminates, and an adjust invoked from inside
\* adjust or from extend always runs with extension disabled, so it never
\* invokes extend or a further nested adjust: at most one level of re-entry
\* into the adjustment path below the caller's adjust or extend.
C19_BoundedReentry ==
    /\ [](NestedAdjustIsLeaf /\ BoundedDepth)
    /\ (call.op \in {"adjust", "extend"}) ~> (call = Idle /\ stack = <<>>)

\* C19 witness: the adjust called by the extend that the caller's adjust
\* called is merging records
C19_Witness ==
    /\ Len(stack) = 3
    /\ stack[1].fn = "adjust" /\ stack[1].extend_adj
    /\ stack[2].fn = "extend"
    /\ stack[3].fn = "adjust" /\ stack[3].pc = "merge" /\ DOMAIN stack[3].parsed # {}

====
